---- MODULE Spec2Model ----
(***************************************************************************)
(* Model of the cltkv1 tokenization core:                                  *)
(*   src/src/cltkv1/nlp.py                 NLP, Text, analyze, get_tokens  *)
(*   src/src/cltkv1/sentence/sentence.py   the sentence tokenizer classes  *)
(*                                                                         *)
(* A Python str is a sequence of code points (naturals).  A character      *)
(* offset is 0-based as in Python; a sequence index is 1-based as in TLA+, *)
(* so text[k + 1] is the character at offset k.                            *)
(* A value that may be None (or an attribute that may be unset) is a       *)
(* sequence of length 0 or 1: None is <<>>, the value v is <<v>>.          *)
(***************************************************************************)
EXTENDS Integers, Sequences, FiniteSets, TLC

(* ------------------------------ bounds -------------------------------- *)

\* Longest text of the enumerated inputs.
MaxLen == 3

\* Longest terminator list handed to BaseRegexSentenceTokenizer.
MaxTerms == 2

\* Most sentence breaks a Punkt model makes in one text.
MaxCuts == 1

(* ---------------------------- characters ------------------------------ *)

\* "." : the character the sentence pattern r"\." of analyze matches.
DOT == 46

\* "|" : the string sent_end_chars are joined with.
PIPE == 124

\* "\" : escapes the next character inside a regex character class.
BACKSLASH == 92

\* Characters the enumerated texts are made of: "A", ".", " ", "|".
Alphabet == {65, DOT, 32, PIPE}

\* "A. B."
TextAB == <<65, DOT, 32, 66, DOT>>

\* "Preclarum sane atque"
TextGalileo ==
    <<80, 114, 101, 99, 108, 97, 114, 117, 109, 32,
      115, 97, 110, 101, 32, 97, 116, 113, 117, 101>>

\* All sequences over S of length at most n.
SeqsUpTo(S, n) == UNION {[1..k -> S] : k \in 0..n}

\* "A| B"
TextPipe == <<65, PIPE, 32, 66>>

\* The texts handed to analyze.
Texts == SeqsUpTo(Alphabet, MaxLen) \cup {TextAB, TextGalileo}

\* Characters the enumerated texts of the sentence tokenizers are made of:
\* ".", " ", "|".
SentAlphabet == {DOT, 32, PIPE}

\* The texts handed to tokenize.
SentTexts == SeqsUpTo(SentAlphabet, MaxLen) \cup {TextAB, TextPipe}

\* Language names handed to the sentence tokenizers (any str is accepted).
Languages ==
    {"latin", "lat", "greek", "Greek", "bengali", "hindi", "marathi",
     "sanskrit", "telugu"}

\* Language names handed to NLP (the two of its doctests).
NLPLanguages == {"latin", "greek"}

None == <<>>

Some(v) == <<v>>

(* ------------------------- re character classes ----------------------- *)

\* \w of a str pattern on the ASCII range: [a-zA-Z0-9_].  The non-ASCII
\* characters of this model are punctuation, which \w does not match.
IsWordCharDot(c) == c \in (48..57) \cup (65..90) \cup (97..122) \cup {95, DOT}

IsWordChar(c) == c \in (48..57) \cup (65..90) \cup (97..122) \cup {95}

\* \s of a str pattern on the ASCII range.
IsSpace(c) == c \in (9..13) \cup (28..32)

\* text[start:stop] for 0 <= start, 0 <= stop (Python clamps to len(text)).
PySliceShort(s, start, stop) ==
    LET hi == IF stop > Len(s) THEN Len(s) ELSE stop
    IN  IF start >= hi THEN <<>> ELSE SubSeq(s, start + 1, hi - 1)

PySlice(s, start, stop) ==
    LET hi == IF stop > Len(s) THEN Len(s) ELSE stop
    IN  IF start >= hi THEN <<>> ELSE SubSeq(s, start + 1, hi)

(* ------------------------------ nlp.py -------------------------------- *)

\* Text = namedtuple("Text", fields_text, defaults=(None,) * 6)
TextDefaults ==
    [indices_sentences |-> None, indices_tokens |-> None, language |-> None,
     tokens |-> None, pipeline |-> None, raw |-> None]

\* re.compile(r"\.").finditer(text), resumed at offset pos: the span() of
\* every match, in order.
RECURSIVE finditer_sentence_whole(_, _)
finditer_sentence_whole(text, pos) ==
    IF pos >= Len(text) THEN
        IF Len(text) = 0 \/ (\E k \in 1..Len(text) : text[k] = DOT)
        THEN <<>>
        ELSE << <<0, Len(text)>> >>
    ELSE IF text[pos + 1] = DOT
         THEN << <<pos, pos + 1>> >> \o finditer_sentence_whole(text, pos + 1)
         ELSE finditer_sentence_whole(text, pos + 1)

RECURSIVE finditer_sentence_empty(_, _)
finditer_sentence_empty(text, pos) ==
    IF pos >= Len(text) THEN << <<pos, pos>> >>
    ELSE IF text[pos + 1] = DOT
         THEN << <<pos, pos + 1>> >> \o finditer_sentence_empty(text, pos + 1)
         ELSE finditer_sentence_empty(text, pos + 1)

RECURSIVE finditer_sentence(_, _)
finditer_sentence(text, pos) ==
    IF pos >= Len(text) THEN <<>>
    ELSE IF text[pos + 1] = DOT
         THEN << <<pos, pos + 1>> >> \o finditer_sentence(text, pos + 1)
         ELSE finditer_sentence(text, pos + 1)

\* The greedy + of r"\w+": the stop offset of the run of word characters
\* that holds offset pos.
RECURSIVE WordRunStop(_, _)
WordRunStop(text, pos) ==
    IF pos + 1 < Len(text) /\ IsWordChar(text[pos + 2])
    THEN WordRunStop(text, pos + 1)
    ELSE pos + 1

\* re.compile(r"\w+").finditer(text), resumed at offset pos.
RECURSIVE finditer_word_overlap(_, _)
finditer_word_overlap(text, pos) ==
    IF pos >= Len(text) THEN <<>>
    ELSE IF IsWordChar(text[pos + 1])
         THEN << <<pos, WordRunStop(text, pos)>> >>
                  \o finditer_word_overlap(text, pos + 1)
         ELSE finditer_word_overlap(text, pos + 1)

RECURSIVE finditer_word_lazy(_, _)
finditer_word_lazy(text, pos) ==
    IF pos >= Len(text) THEN <<>>
    ELSE IF IsWordChar(text[pos + 1])
         THEN << <<pos, pos + 1>> >> \o finditer_word_lazy(text, pos + 1)
         ELSE finditer_word_lazy(text, pos + 1)

RECURSIVE finditer_word(_, _)
finditer_word(text, pos) ==
    IF pos >= Len(text) THEN <<>>
    ELSE IF IsWordChar(text[pos + 1])
         THEN LET stop == WordRunStop(text, pos)
              IN  << <<pos, stop>> >> \o finditer_word(text, stop)
         ELSE finditer_word(text, pos + 1)

\* NLP.analyze: the Text it returns.
analyze(language, text) ==
    [TextDefaults EXCEPT
        !.indices_sentences = Some(finditer_sentence(text, 0)),
        !.indices_tokens = Some(finditer_word(text, 0)),
        !.language = Some(language),
        !.raw = Some(text)]

\* NLP.get_tokens: the list it returns.
get_tokens(analyzed) ==
    LET indices_tokens == analyzed.indices_tokens[1]
    IN  [i \in 1..Len(indices_tokens) |->
            PySlice(analyzed.raw[1], indices_tokens[i][1], indices_tokens[i][2])]

(* ---------------------------- sentence.py ------------------------------ *)

\* INDIAN_LANGUAGES
INDIAN_LANGUAGES == {"bengali", "hindi", "marathi", "sanskrit", "telugu"}

\* str.lower() on the language names of this model.
Lower(language) == IF language = "Greek" THEN "greek" ELSE language

\* bool(x) of an argument that is None or a str.
Truthy(x) == x # None /\ x[1] # ""

\* bool(x) of an argument that is None or a list.
TruthyList(x) == x # None /\ x[1] # <<>>

\* An attribute that was never assigned; reading it raises AttributeError.
Unset == <<>>

\* An attribute that was assigned v (v itself may be None).
Attr(v) == <<v>>

\* A fresh instance of class cls, no attribute assigned yet.
NewObject(cls) ==
    [cls |-> cls, language |-> Unset, language_old |-> Unset,
     lang_vars |-> Unset, models_path |-> Unset, model |-> Unset,
     sent_end_chars |-> Unset, sent_end_chars_regex |-> Unset,
     pattern |-> Unset]

\* What a call did: the instance afterwards, the exception it raised (or
\* None), the value it returned (or None), and the tokenizer it ran.
Raise(self, type, message) ==
    [self |-> self, raised |-> Some([type |-> type, message |-> message]),
     value |-> None, via |-> "none"]

Return(self, value, via) ==
    [self |-> self, raised |-> None, value |-> Some(value), via |-> via]

\* BasePunktSentenceTokenizer.missing_models_message
missing_models_message ==
    "BasePunktSentenceTokenizer requires a language model."

\* GreekLanguageVars.sent_end_chars: [".", ";", "·"]
GreekSentEndChars == << <<DOT>>, <<59>>, <<183>> >>

\* SanskritLanguageVars.sent_end_chars: ["।", "॥", "\|", "\|\|"]
SanskritSentEndChars ==
    << <<2404>>, <<2405>>, <<BACKSLASH, PIPE>>,
       <<BACKSLASH, PIPE, BACKSLASH, PIPE>> >>

\* The artifacts a model store may hold: the directory of a language and the
\* file <stem>_punkt.pickle in it.
Artifacts ==
    {[language |-> "lat", stem |-> "latin"],
     [language |-> "latin", stem |-> "latin"]}

\* The model stores of this model: empty, or one artifact installed.
Stores == {{}} \cup {{a} : a \in Artifacts}

\* open_pickle(path) against the store: the unpickled Punkt model, or
\* FileNotFoundError.
open_pickle(path, installed) ==
    IF path \in installed
    THEN [raised |-> None,
          value |-> Some([artifact |-> path, _lang_vars |-> "PunktLanguageVars"])]
    ELSE [raised |-> Some("FileNotFoundError"), value |-> None]

\* The offsets of the whitespace characters of text.
SpaceOffsets(text) == {k \in 0..(Len(text) - 1) : IsSpace(text[k + 1])}

\* The pieces of text between the offsets of cuts, from offset start on, the
\* cut characters and the empty pieces dropped.
RECURSIVE Pieces(_, _, _, _)
Pieces(text, cuts, pos, start) ==
    IF pos >= Len(text)
    THEN IF start < pos THEN <<PySlice(text, start, pos)>> ELSE <<>>
    ELSE IF pos \in cuts
         THEN (IF start < pos THEN <<PySlice(text, start, pos)>> ELSE <<>>)
                 \o Pieces(text, cuts, pos + 1, pos + 1)
         ELSE Pieces(text, cuts, pos + 1, start)

\* The sets of whitespace offsets a Punkt model may break text at.
PunktCuts(text) ==
    {cuts \in SUBSET SpaceOffsets(text) : Cardinality(cuts) <= MaxCuts}

\* PunktSentenceTokenizer.tokenize(text): the sentences of text, broken at the
\* whitespace offsets cuts the Punkt model decides on.
punkt_tokenize(text, cuts) == Pieces(text, cuts, 0, 0)

\* BaseSentenceTokenizer.__init__
BaseSentenceTokenizer_init(self, language) ==
    IF Truthy(language)
    THEN [self EXCEPT !.language = Attr(Some(Lower(language[1])))]
    ELSE self

\* BaseSentenceTokenizer.tokenize
BaseSentenceTokenizer_tokenize(self, text, cuts) ==
    IF self.model = Unset THEN Raise(self, "AttributeError", "model")
    ELSE IF self.lang_vars = Unset
    THEN Raise(self, "AttributeError", "lang_vars")
    ELSE LET tokenizer ==
                 IF self.lang_vars[1] # None
                 THEN [self.model[1] EXCEPT !._lang_vars = self.lang_vars[1][1]]
                 ELSE self.model[1]
         IN  Return([self EXCEPT !.model = Attr(tokenizer)],
                    punkt_tokenize(text, cuts), "self.model")

\* BaseSentenceTokenizer._get_models_path
get_models_path(language) == language

\* BasePunktSentenceTokenizer.__init__
BasePunkt_init(self, language, lang_vars, installed) ==
    LET s0 == [self EXCEPT !.language = Attr(language)]
        s1 == IF language = Some("lat")
              THEN [s0 EXCEPT !.language_old = Attr("latin")]
              ELSE s0
        s2 == [s1 EXCEPT !.lang_vars = Attr(lang_vars)]
        s3 == BaseSentenceTokenizer_init(s2, s2.language[1])
    IN  IF ~Truthy(s3.language[1]) THEN Return(s3, None, "none")
        ELSE LET s4 == [s3 EXCEPT !.models_path =
                                     Attr(get_models_path(s3.language[1][1]))]
             IN  IF s4.language_old = Unset
                 THEN Raise(s4, "AttributeError", "language_old")
                 ELSE LET got == open_pickle(
                                     [language |-> s4.models_path[1],
                                      stem |-> s4.language_old[1]], installed)
                      IN  IF got.raised # None
                          THEN Raise(s4, got.raised[1], missing_models_message)
                          ELSE Return([s4 EXCEPT !.model = Attr(got.value[1])],
                                      None, "none")

\* sep.join(strings)
RECURSIVE Join(_, _)
Join(sep, strings) ==
    IF Len(strings) = 0 THEN <<>>
    ELSE IF Len(strings) = 1 THEN strings[1]
    ELSE strings[1] \o sep \o Join(sep, Tail(strings))

\* "(?<=["
PatternPrefix == <<40, 63, 60, 61, 91>>

\* "])\s"
PatternSuffix == <<93, 41, BACKSLASH, 115>>

\* The three attributes both regex paths assign from a terminator list.
SetPattern(self, sent_end_chars) ==
    LET regex == Join(<<PIPE>>, sent_end_chars)
    IN  [self EXCEPT !.sent_end_chars = Attr(sent_end_chars),
                     !.sent_end_chars_regex = Attr(regex),
                     !.pattern = Attr(PatternPrefix \o regex \o PatternSuffix)]

\* The characters the set [...] of a pattern matches, its body read from
\* index i on: a backslash makes the next character literal.  (The
\* terminators of this model hold none of ^ - ] and no class escape.)
RECURSIVE ClassChars(_, _)
ClassChars(body, i) ==
    IF i > Len(body) THEN {}
    ELSE IF body[i] = BACKSLASH /\ i < Len(body)
         THEN {body[i + 1]} \cup ClassChars(body, i + 2)
         ELSE {body[i]} \cup ClassChars(body, i + 1)

\* The set of the lookbehind of a pattern "(?<=[...])\s".
LookbehindSet(pattern) ==
    ClassChars(SubSeq(pattern, Len(PatternPrefix) + 1,
                      Len(pattern) - Len(PatternSuffix)), 1)

\* re.split(pattern, text) from offset pos on, the current piece starting at
\* offset start: text is cut at every whitespace character that follows a
\* character of the lookbehind set, and that whitespace character is dropped.
RECURSIVE re_split_from_eat(_, _, _, _)
re_split_from_eat(set, text, pos, start) ==
    IF pos >= Len(text) THEN <<PySlice(text, start, Len(text))>>
    ELSE IF pos >= 1 /\ IsSpace(text[pos + 1]) /\ text[pos] \in set
         THEN <<PySlice(text, start, pos - 1)>>
                 \o re_split_from_eat(set, text, pos + 1, pos + 1)
         ELSE re_split_from_eat(set, text, pos + 1, start)

RECURSIVE re_split_from(_, _, _, _)
re_split_from(set, text, pos, start) ==
    IF pos >= Len(text) THEN <<PySlice(text, start, Len(text))>>
    ELSE IF pos >= 1 /\ IsSpace(text[pos + 1]) /\ text[pos] \in set
         THEN <<PySlice(text, start, pos)>>
                 \o re_split_from(set, text, pos + 1, pos + 1)
         ELSE re_split_from(set, text, pos + 1, start)

re_split(pattern, text) == re_split_from(LookbehindSet(pattern), text, 0, 0)

\* BaseRegexSentenceTokenizer.__init__
BaseRegex_init(self, language, sent_end_chars) ==
    LET s1 == BaseSentenceTokenizer_init(self, language)
    IN  IF TruthyList(sent_end_chars)
        THEN Return(SetPattern(s1, sent_end_chars[1]), None, "none")
        ELSE Raise(s1, "Exception", "")

\* BaseRegexSentenceTokenizer.tokenize
BaseRegex_tokenize(self, text) ==
    Return(self, re_split(self.pattern[1], text), "re.split")

\* TokenizeSentence.__init__
TokenizeSentence_init(self, language, installed) ==
    LET s1 == [self EXCEPT !.language = Attr(Some(Lower(language)))]
    IN  IF s1.language[1] = Some("latin")
        THEN BasePunkt_init([s1 EXCEPT !.lang_vars =
                                          Attr(Some("LatinLanguageVars"))],
                            Some("latin"), Some("LatinLanguageVars"), installed)
        ELSE Return(s1, None, "none")

\* TokenizeSentence.tokenize_sentences (TokenizeSentence.tokenize is its alias)
tokenize_sentences_keep_default(self, text, cuts) ==
    LET language == self.language[1][1]
    IN  IF language = "latin"
        THEN BaseSentenceTokenizer_tokenize(self, text, cuts)
        ELSE IF language = "greek"
        THEN LET s1 == SetPattern(self, GreekSentEndChars)
             IN  Return(s1, re_split(s1.pattern[1], text), "re.split")
        ELSE IF language \in INDIAN_LANGUAGES
        THEN LET s1 == SetPattern(self, SanskritSentEndChars)
             IN  Return(s1, re_split(s1.pattern[1], text), "re.split")
        ELSE Return([self EXCEPT !.model =
                        Attr([artifact |-> [language |-> "", stem |-> ""],
                              _lang_vars |-> "PunktLanguageVars"])],
                    punkt_tokenize(text, cuts), "PunktSentenceTokenizer()")

tokenize_sentences(self, text, cuts) ==
    LET language == self.language[1][1]
    IN  IF language = "latin"
        THEN BaseSentenceTokenizer_tokenize(self, text, cuts)
        ELSE IF language = "greek"
        THEN LET s1 == SetPattern(self, GreekSentEndChars)
             IN  Return(s1, re_split(s1.pattern[1], text), "re.split")
        ELSE IF language \in INDIAN_LANGUAGES
        THEN LET s1 == SetPattern(self, SanskritSentEndChars)
             IN  Return(s1, re_split(s1.pattern[1], text), "re.split")
        ELSE Return(self, punkt_tokenize(text, cuts), "PunktSentenceTokenizer()")

\* The strings the enumerated terminator lists are made of: ".", ";".
TermStrings == {<<DOT>>, <<59>>}

\* The sent_end_chars handed to BaseRegexSentenceTokenizer: None, or a list.
TermLists == {None} \cup {Some(l) : l \in SeqsUpTo(TermStrings, MaxTerms)}

VARIABLES
    cltk_nlp,        \* the NLP object: None, or its attributes
    analyzed_text,   \* the Text the last analyze call returned, or None
    tokens,          \* the list the last get_tokens call returned, or None
    construction,    \* the constructor call made: None, or its arguments
    tokenizer,       \* the sentence tokenizer constructed, or None
    raised,          \* the exception the last call raised, or None
    returned         \* the last tokenize call that returned, or None

nlpVars == <<cltk_nlp, analyzed_text, tokens>>

sentVars == <<construction, tokenizer, raised, returned>>

vars == <<cltk_nlp, analyzed_text, tokens, construction, tokenizer, raised, returned>>

Init ==
    /\ cltk_nlp = None
    /\ analyzed_text = None
    /\ tokens = None
    /\ construction = None
    /\ tokenizer = None
    /\ raised = None
    /\ returned = None

\* cltk_nlp = NLP(language, pipeline=None): the object is constructed once.
NLPInit ==
    \E language \in NLPLanguages :
        /\ cltk_nlp = None
        /\ cltk_nlp' = Some([language |-> language, pipeline |-> None])
        /\ UNCHANGED <<analyzed_text, tokens, sentVars>>

\* analyzed_text = cltk_nlp.analyze(text)
Analyze ==
    /\ cltk_nlp # None
    /\ \E text \in Texts :
          analyzed_text' = Some(analyze(cltk_nlp[1].language, text))
    /\ UNCHANGED <<cltk_nlp, tokens, sentVars>>

\* tokens = cltk_nlp.get_tokens(analyzed_text=analyzed_text)
GetTokens ==
    /\ cltk_nlp # None
    /\ analyzed_text # None
    /\ tokens' = Some(get_tokens(analyzed_text[1]))
    /\ UNCHANGED <<cltk_nlp, analyzed_text, sentVars>>

Next == NLPInit \/ Analyze \/ GetTokens

Spec == Init /\ [][Next]_vars

\* The caller's variables after a constructor call that did done: it holds
\* the instance only when __init__ raised nothing.
AfterConstruction(args, done) ==
    [construction |-> Some(args),
     tokenizer |-> IF done.raised = None THEN Some(done.self) ELSE None,
     raised |-> done.raised,
     returned |-> None]

\* The caller's variables after a tokenize call on text that did done.
AfterTokenize(text, done) ==
    [tokenizer |-> Some(done.self),
     raised |-> done.raised,
     returned |-> IF done.raised = None
                  THEN Some([text |-> text, value |-> done.value[1],
                             via |-> done.via])
                  ELSE None]

\* BasePunktSentenceTokenizer(language, lang_vars), against a model store
\* that holds the artifacts installed
ConstructPunkt ==
    /\ construction = None
    /\ \E language \in {None} \cup {Some(l) : l \in Languages},
          lang_vars \in {None, Some("LatinLanguageVars")},
          installed \in Stores :
          LET after == AfterConstruction(
                          [cls |-> "BasePunktSentenceTokenizer",
                           language |-> language, installed |-> installed,
                           sent_end_chars |-> None],
                          BasePunkt_init(NewObject("BasePunktSentenceTokenizer"),
                                         language, lang_vars, installed))
          IN  /\ construction' = after.construction
              /\ tokenizer' = after.tokenizer
              /\ raised' = after.raised
              /\ returned' = after.returned
    /\ UNCHANGED nlpVars

\* BaseRegexSentenceTokenizer(language, sent_end_chars)
ConstructRegex ==
    /\ construction = None
    /\ \E language \in {None}, sent_end_chars \in TermLists :
          LET after == AfterConstruction(
                          [cls |-> "BaseRegexSentenceTokenizer",
                           language |-> language, installed |-> {},
                           sent_end_chars |-> sent_end_chars],
                          BaseRegex_init(NewObject("BaseRegexSentenceTokenizer"),
                                         language, sent_end_chars))
          IN  /\ construction' = after.construction
              /\ tokenizer' = after.tokenizer
              /\ raised' = after.raised
              /\ returned' = after.returned
    /\ UNCHANGED nlpVars

\* TokenizeSentence(language); the store is enumerated only for the language
\* whose constructor goes on to read it.
ConstructTokenizeSentence ==
    /\ construction = None
    /\ \E language \in Languages :
          \E installed \in (IF Lower(language) = "latin"
                            THEN Stores ELSE {{}}) :
              LET after == AfterConstruction(
                              [cls |-> "TokenizeSentence",
                               language |-> Some(language),
                               installed |-> installed,
                               sent_end_chars |-> None],
                              TokenizeSentence_init(NewObject("TokenizeSentence"),
                                                    language, installed))
              IN  /\ construction' = after.construction
                  /\ tokenizer' = after.tokenizer
                  /\ raised' = after.raised
                  /\ returned' = after.returned
    /\ UNCHANGED nlpVars

\* tokenizer.tokenize(text) on a BasePunktSentenceTokenizer
PunktTokenize ==
    /\ tokenizer # None
    /\ tokenizer[1].cls = "BasePunktSentenceTokenizer"
    /\ \E text \in SentTexts :
          \E cuts \in PunktCuts(text) :
              LET after == AfterTokenize(text,
                              BaseSentenceTokenizer_tokenize(tokenizer[1], text, cuts))
              IN  /\ tokenizer' = after.tokenizer
                  /\ raised' = after.raised
                  /\ returned' = after.returned
    /\ UNCHANGED <<construction, nlpVars>>

\* tokenizer.tokenize(text) on a BaseRegexSentenceTokenizer
RegexTokenize ==
    /\ tokenizer # None
    /\ tokenizer[1].cls = "BaseRegexSentenceTokenizer"
    /\ \E text \in SentTexts :
          LET after == AfterTokenize(text, BaseRegex_tokenize(tokenizer[1], text))
          IN  /\ tokenizer' = after.tokenizer
              /\ raised' = after.raised
              /\ returned' = after.returned
    /\ UNCHANGED <<construction, nlpVars>>

\* tokenizer.tokenize(text) on a TokenizeSentence
TokenizeSentences ==
    /\ tokenizer # None
    /\ tokenizer[1].cls = "TokenizeSentence"
    /\ \E text \in SentTexts :
          \E cuts \in PunktCuts(text) :
              LET after == AfterTokenize(text,
                              tokenize_sentences(tokenizer[1], text, cuts))
              IN  /\ tokenizer' = after.tokenizer
                  /\ raised' = after.raised
                  /\ returned' = after.returned
    /\ UNCHANGED <<construction, nlpVars>>

NextSent ==
    \/ ConstructPunkt
    \/ ConstructRegex
    \/ ConstructTokenizeSentence
    \/ PunktTokenize
    \/ RegexTokenize
    \/ TokenizeSentences

SpecSent == Init /\ [][NextSent]_vars

(* --------------------------- claims: nlp.py --------------------------- *)

\* The Text the last analyze call returned.
Doc == analyzed_text[1]

DocRaw == Doc.raw[1]

DocSentences == Doc.indices_sentences[1]

DocTokens == Doc.indices_tokens[1]

\* spans are strictly increasing by start, none overlaps the next, each has
\* start <= stop <= n.
SpansOrdered(spans, n) ==
    \A i \in 1..Len(spans) :
        /\ 0 <= spans[i][1]
        /\ spans[i][1] <= spans[i][2]
        /\ spans[i][2] <= n
        /\ i < Len(spans) =>
              /\ spans[i][1] < spans[i + 1][1]
              /\ spans[i][2] <= spans[i + 1][1]

\* C1: in every Text analyze returns, indices_sentences and indices_tokens are
\* each strictly increasing by start and non-overlapping (start <= stop, and
\* stop <= the next start), and every stop is <= len(raw).
C1_SpanInvariant ==
    analyzed_text # None =>
        /\ SpansOrdered(DocSentences, Len(DocRaw))
        /\ SpansOrdered(DocTokens, Len(DocRaw))

\* C1 witness: a returned Text with several sentence spans and token spans.
C1_Witness ==
    /\ analyzed_text # None
    /\ Len(DocSentences) >= 2
    /\ Len(DocTokens) >= 2

\* The characters of text at offsets start .. stop - 1.
CharsAt(text, start, stop) == [k \in 1..(stop - start) |-> text[start + k]]

\* C2: whenever get_tokens returns a new list, it has one element per token
\* span, element i is raw[start_i : stop_i] for the i-th span, in the order of
\* the spans, and the Text passed in is left as it was.
C2_RoundTrip ==
    [][tokens' # tokens =>
          /\ analyzed_text' = analyzed_text
          /\ tokens' # None
          /\ Len(tokens'[1]) = Len(DocTokens)
          /\ \A i \in 1..Len(DocTokens) :
                tokens'[1][i] = CharsAt(DocRaw, DocTokens[i][1], DocTokens[i][2])
    ]_vars

\* C2 witness: get_tokens has returned ["A", "B"] for the Text of "A. B.".
C2_Witness ==
    /\ analyzed_text # None
    /\ tokens # None
    /\ DocRaw = TextAB
    /\ tokens[1] = << <<65>>, <<66>> >>

\* C3: the token spans are exactly the maximal runs of word characters, in
\* order: none is empty, every character inside one is a word character, every
\* character outside all of them is not, no two are adjacent; and
\* "Preclarum sane atque" yields Preclarum, sane, atque.
C3_MaximalWordRuns ==
    analyzed_text # None =>
        /\ \A i \in 1..Len(DocTokens) :
              /\ 0 <= DocTokens[i][1]
              /\ DocTokens[i][1] < DocTokens[i][2]
              /\ DocTokens[i][2] <= Len(DocRaw)
              /\ \A k \in DocTokens[i][1]..(DocTokens[i][2] - 1) :
                    DocRaw[k + 1] \in (48..57) \cup (65..90) \cup (97..122) \cup {95}
              /\ i < Len(DocTokens) => DocTokens[i][2] < DocTokens[i + 1][1]
        /\ \A k \in 0..(Len(DocRaw) - 1) :
              (\A i \in 1..Len(DocTokens) :
                    k < DocTokens[i][1] \/ DocTokens[i][2] <= k)
                 => DocRaw[k + 1] \notin
                        (48..57) \cup (65..90) \cup (97..122) \cup {95}
        /\ DocRaw = TextGalileo =>
              /\ Len(DocTokens) = 3
              /\ CharsAt(DocRaw, DocTokens[1][1], DocTokens[1][2])
                    = <<80, 114, 101, 99, 108, 97, 114, 117, 109>>
              /\ CharsAt(DocRaw, DocTokens[2][1], DocTokens[2][2])
                    = <<115, 97, 110, 101>>
              /\ CharsAt(DocRaw, DocTokens[3][1], DocTokens[3][2])
                    = <<97, 116, 113, 117, 101>>

\* C3 witness: analyze has returned the Text of "Preclarum sane atque".
C3_Witness ==
    /\ analyzed_text # None
    /\ DocRaw = TextGalileo
    /\ Len(DocTokens) = 3

\* C7 as stated: analyze(language, "") returns a Text whose sentence spans,
\* token spans and words are all empty sequences (none is None).
C7_Original ==
    (analyzed_text # None /\ DocRaw = <<>>) =>
        /\ Doc.indices_sentences = Some(<<>>)
        /\ Doc.indices_tokens = Some(<<>>)
        /\ Doc.tokens = Some(<<>>)

\* C7 as amended: analyze(language, "") returns a Text whose sentence spans and
\* token spans are empty sequences and whose tokens field is None.
C7_EmptyInput ==
    (analyzed_text # None /\ DocRaw = <<>>) =>
        /\ Doc.indices_sentences = Some(<<>>)
        /\ Doc.indices_tokens = Some(<<>>)
        /\ Doc.tokens = None

\* C7 witness: analyze has returned the Text of "".
C7_Witness ==
    /\ analyzed_text # None
    /\ Doc.raw = Some(<<>>)

\* text is not empty and holds no "."
NoTerminator(text) == Len(text) > 0 /\ \A k \in 1..Len(text) : text[k] # DOT

\* C8 as stated: a non-empty text without a terminator yields exactly one
\* sentence span, [0, len(text)).
C8_Original ==
    (analyzed_text # None /\ NoTerminator(DocRaw)) =>
        DocSentences = << <<0, Len(DocRaw)>> >>

\* C8 as amended: a non-empty text without a terminator yields no sentence
\* span at all.
C8_NoTerminatorNoSpan ==
    (analyzed_text # None /\ NoTerminator(DocRaw)) =>
        Doc.indices_sentences = Some(<<>>)

\* C8 witness: analyze has returned the Text of a text of words and spaces.
C8_Witness ==
    /\ analyzed_text # None
    /\ NoTerminator(DocRaw)
    /\ Len(DocTokens) >= 2

\* C9 as stated: every token span lies within some sentence span.
C9_Original ==
    analyzed_text # None =>
        \A i \in 1..Len(DocTokens) :
            \E j \in 1..Len(DocSentences) :
                /\ DocSentences[j][1] <= DocTokens[i][1]
                /\ DocTokens[i][2] <= DocSentences[j][2]

\* C9 as amended: every token span is disjoint from every sentence span.
C9_TokensApartFromSentences ==
    analyzed_text # None =>
        \A i \in 1..Len(DocTokens) :
            \A j \in 1..Len(DocSentences) :
                \/ DocTokens[i][2] <= DocSentences[j][1]
                \/ DocSentences[j][2] <= DocTokens[i][1]

\* C9 witness: a returned Text with a token span right before a sentence span.
C9_Witness ==
    /\ analyzed_text # None
    /\ \E i \in 1..Len(DocTokens) :
          \E j \in 1..Len(DocSentences) :
              DocTokens[i][2] = DocSentences[j][1]

(* ------------------------- claims: sentence.py ------------------------ *)

\* The last tokenize call returned from a regex split.
RegexReturned == returned # None /\ returned[1].via = "re.split"

\* The text of the last tokenize call that returned, and what it returned.
RetText == returned[1].text

RetValue == returned[1].value

\* The offset in the text at which piece i of a split starts, when one
\* character was dropped between consecutive pieces.
RECURSIVE SegStart(_, _)
SegStart(value, i) ==
    IF i = 1 THEN 0 ELSE SegStart(value, i - 1) + Len(value[i - 1]) + 1

\* BaseRegexSentenceTokenizer(sent_end_chars=["."]) was constructed and its
\* last tokenize call was on "A. B."
RegexOnTextAB ==
    /\ RegexReturned
    /\ tokenizer[1].cls = "BaseRegexSentenceTokenizer"
    /\ tokenizer[1].sent_end_chars = Attr(<< <<DOT>> >>)
    /\ RetText = TextAB

\* C4 as stated: the regex variant's tokenize returns, for each piece of the
\* split, its [start, stop) offsets in the text; "A. B." with the terminator
\* "." gives [[0, 2], [3, 5]].
C4_Original ==
    RegexReturned =>
        /\ \A i \in 1..Len(RetValue) :
              /\ Len(RetValue[i]) = 2
              /\ RetValue[i][1] = SegStart(RetValue, i)
              /\ RetValue[i][1] <= RetValue[i][2]
              /\ RetValue[i][2] <= Len(RetText)
        /\ RegexOnTextAB => RetValue = << <<0, 2>>, <<3, 5>> >>

\* C4 as amended: the regex variant's tokenize returns the pieces of the split
\* themselves, in order: consecutive substrings of the text with exactly one
\* whitespace character dropped between them, from offset 0 to the end of the
\* text; "A. B." with the terminator "." gives ["A.", "B."].
C4_RegexReturnsSubstrings ==
    RegexReturned =>
        /\ Len(RetValue) >= 1
        /\ \A i \in 1..Len(RetValue) :
              /\ SegStart(RetValue, i) + Len(RetValue[i]) <= Len(RetText)
              /\ RetValue[i] = CharsAt(RetText, SegStart(RetValue, i),
                                       SegStart(RetValue, i) + Len(RetValue[i]))
              /\ i > 1 => IsSpace(RetText[SegStart(RetValue, i)])
        /\ SegStart(RetValue, Len(RetValue)) + Len(RetValue[Len(RetValue)])
              = Len(RetText)
        /\ RegexOnTextAB => RetValue = << <<65, DOT>>, <<66, DOT>> >>

\* C4 witness: the regex variant built from ["."] has split "A. B." in two.
C4_Witness ==
    /\ RegexOnTextAB
    /\ Len(RetValue) = 2

\* The constructor call made was one of the trained-model detector.
PunktConstruction ==
    /\ construction # None
    /\ construction[1].language # None
    /\ \/ construction[1].cls = "BasePunktSentenceTokenizer"
       \/ /\ construction[1].cls = "TokenizeSentence"
          /\ Lower(construction[1].language[1]) = "latin"

\* The store of the constructor call made holds no artifact of its language.
ArtifactAbsent ==
    \A a \in construction[1].installed :
        a.language # Lower(construction[1].language[1])

\* C5 as stated: constructing the trained-model detector for a language whose
\* artifact is absent from the store fails with the model-not-found error that
\* carries the missing-models message, and yields no detector.
C5_Original ==
    (PunktConstruction /\ ArtifactAbsent) =>
        /\ tokenizer = None
        /\ raised = Some([type |-> "FileNotFoundError",
                          message |-> missing_models_message])

\* The variant the dispatch table gives a language.
TableVariant(language) ==
    IF language = "latin" THEN "self.model"
    ELSE IF language = "greek" \/ language \in INDIAN_LANGUAGES THEN "re.split"
    ELSE "PunktSentenceTokenizer()"

\* C6 as stated: the variant TokenizeSentence runs follows the table: latin
\* the model loaded at construction under the name latin, greek the regex
\* variant with the Greek terminators, the five Indic languages the regex
\* variant with the Indic terminators, any other language the default Punkt
\* tokenizer; and once constructed, tokenize returns and does not raise.
C6_Original ==
    (construction # None /\ construction[1].cls = "TokenizeSentence") =>
        LET language == Lower(construction[1].language[1])
        IN  /\ (language = "latin" /\ construction[1].installed # {}) =>
                  /\ tokenizer # None
                  /\ tokenizer[1].model # Unset
                  /\ tokenizer[1].model[1].artifact.stem = "latin"
            /\ tokenizer # None => raised = None
            /\ returned # None =>
                  /\ returned[1].via = TableVariant(language)
                  /\ language = "greek" =>
                        tokenizer[1].sent_end_chars = Attr(GreekSentEndChars)
                  /\ language \in INDIAN_LANGUAGES =>
                        tokenizer[1].sent_end_chars = Attr(SanskritSentEndChars)

\* The characters the strings of a terminator list stand for.
TermChars(sent_end_chars) ==
    UNION {ClassChars(sent_end_chars[i], 1) : i \in 1..Len(sent_end_chars)}

\* C10 as stated: the regex variant built from the list L splits the text at
\* a whitespace character if and only if the character right before it is one
\* of the characters of L.
C10_Original ==
    RegexReturned =>
        {SegStart(RetValue, i) - 1 : i \in 2..Len(RetValue)}
           = {k \in 1..(Len(RetText) - 1) :
                 /\ IsSpace(RetText[k + 1])
                 /\ RetText[k] \in TermChars(tokenizer[1].sent_end_chars[1])}

\* A detector is held: every step from here on is a tokenize call on it.
DetectorHeld == construction # None /\ tokenizer # None

\* The detector is one whose tokenize runs a regex split set up in the call
\* itself: a TokenizeSentence of greek or of an Indic language.
SplitsByWorkaround ==
    /\ tokenizer[1].cls = "TokenizeSentence"
    /\ \/ tokenizer[1].language[1][1] = "greek"
       \/ tokenizer[1].language[1][1] \in INDIAN_LANGUAGES

\* The detector is one whose tokenize runs the loaded model with lang_vars set.
OverridesLangVars ==
    /\ tokenizer[1].model # Unset
    /\ tokenizer[1].lang_vars # Unset
    /\ tokenizer[1].lang_vars[1] # None

\* C11 as stated: once a detector is constructed, no tokenize call changes the
\* detector instance or the model it loaded.
C11_Original == [][DetectorHeld => tokenizer' = tokenizer]_vars

\* C11 as amended: a tokenize call changes nothing of the detector or its
\* model, except that a greek or Indic TokenizeSentence assigns its
\* sent_end_chars, sent_end_chars_regex and pattern, and a detector with a
\* loaded model and lang_vars assigns the model's _lang_vars; what is assigned
\* does not depend on the text, so once one tokenize call has returned, every
\* later call leaves detector and model as they are.
C11_WritesOnlyOnFirstCall ==
    [][DetectorHeld =>
          /\ tokenizer' # None
          /\ tokenizer'[1].cls = tokenizer[1].cls
          /\ tokenizer'[1].language = tokenizer[1].language
          /\ tokenizer'[1].language_old = tokenizer[1].language_old
          /\ tokenizer'[1].lang_vars = tokenizer[1].lang_vars
          /\ tokenizer'[1].models_path = tokenizer[1].models_path
          /\ (tokenizer[1].model = Unset) = (tokenizer'[1].model = Unset)
          /\ tokenizer[1].model # Unset =>
                tokenizer'[1].model[1].artifact = tokenizer[1].model[1].artifact
          /\ ~SplitsByWorkaround =>
                /\ tokenizer'[1].sent_end_chars = tokenizer[1].sent_end_chars
                /\ tokenizer'[1].sent_end_chars_regex
                      = tokenizer[1].sent_end_chars_regex
                /\ tokenizer'[1].pattern = tokenizer[1].pattern
          /\ ~OverridesLangVars => tokenizer'[1].model = tokenizer[1].model
          /\ returned # None => tokenizer' = tokenizer
    ]_vars

\* C11 witness: a greek TokenizeSentence whose tokenize call has returned now
\* carries the pattern it had not been constructed with.
C11_Witness ==
    /\ DetectorHeld
    /\ returned # None
    /\ SplitsByWorkaround
    /\ tokenizer[1].pattern # Unset

====
